---- MODULE Spec2Model ----
(***************************************************************************)
(* Model of packages/performance/src/resources/trace.ts: the Trace class   *)
(* (state machine start/stop, record, custom metrics and attributes) and   *)
(* its two static factories, driven against the performance-entry registry *)
(* of the Api service and the logTrace reporter.                           *)
(*                                                                         *)
(* JavaScript values are tagged records: [num |-> n] is the number n/Den   *)
(* (fixed point, so that fractional milliseconds and metrics exist),       *)
(* [str |-> s] a string, [undefined |-> TRUE], [nan |-> TRUE], [fn |-> k]  *)
(* a member inherited from Object.prototype, [concat |-> <<a, b>>] the     *)
(* string a + b.                                                           *)
(***************************************************************************)
EXTENDS Integers, Sequences, FiniteSets, TLC

VARIABLES
  traces,          \* the Trace instances constructed so far, in order of construction
  entries,         \* the performance-entry registry behind the Api service
  now,             \* performance.now() at the last mark
  logged,          \* the traces handed to logTrace, each as it was at the call
  held,            \* the attribute map the caller holds (returned or passed in)
  ret,             \* the last call: operation, trace, arguments, error, value
  ops,             \* the number of calls made
  reportingCalls   \* the number of calls made that are to report a trace

vars == <<traces, entries, now, logged, held, ret, ops, reportingCalls>>

(***************************************************************************)
(* Bounds of the model.                                                    *)
(***************************************************************************)
MaxOps == 5
MaxTraces == 2
MaxDataOps == 3
MaxOobOps == 2
MaxPairOps == 4
MaxUserTimingOps == 4

(***************************************************************************)
(* JavaScript values.                                                      *)
(***************************************************************************)
Den == 2 * 1000

Num(n) == [num |-> n]
Str(s) == [str |-> s]
Undefined == [undefined |-> TRUE]
NaN == [nan |-> TRUE]
Fn(k) == [fn |-> k]
Concat(a, b) == [concat |-> <<a, b>>]
Array(elements) == [array |-> elements]

IsNum(v) == DOMAIN v = {"num"}
IsStr(v) == DOMAIN v = {"str"}

\* Whole(3) is the JavaScript number 3
Whole(k) == Num(k * Den)
\* a number of milliseconds (or of anything) given in units of 1/Den
Frac(n) == Num(n)

IsWhole(v) == IsNum(v) /\ v.num % Den = 0

\* the members every object literal {} inherits from Object.prototype
ObjectPrototypeKeys == {"constructor", "toString", "valueOf", "hasOwnProperty"}

\* obj[key]: own property, else the inherited member, else undefined
Get(props, key) ==
  IF key \in DOMAIN props THEN props[key]
  ELSE IF key \in ObjectPrototypeKeys THEN Fn(key)
  ELSE Undefined

\* obj[key] = value
Put(props, key, value) == (key :> value) @@ props

\* delete obj[key]
Delete(props, key) == [k \in (DOMAIN props) \ {key} |-> props[k]]

\* the strings of the model that are numeric literals, with their value
NumericStrings == {"2.9"}
ParseNumeric(s) == CASE s = "2.9" -> Frac(5800)

\* Number(v)
Number(v) ==
  IF IsNum(v) THEN v
  ELSE IF IsStr(v) /\ v.str \in NumericStrings THEN ParseNumeric(v.str)
  ELSE IF IsStr(v) /\ v.str = "" THEN Whole(0)
  ELSE NaN

\* isNaN(v), on an already coerced value
isNaN(v) == v = NaN

\* Math.round(v) in the place of Math.floor(v)
MathRound(v) ==
  LET x == Number(v) IN
  IF IsNum(x) THEN Num(((2 * x.num + Den) \div (2 * Den)) * Den) ELSE NaN

\* Math.floor(v): coerces, then rounds toward minus infinity
MathFloor(v) ==
  LET x == Number(v) IN
  IF IsNum(x) THEN Num((x.num \div Den) * Den) ELSE NaN

\* a * 1000
TimesThousand(a) == IF IsNum(a) THEN Num(a.num * 1000) ELSE NaN

\* a + b
JsAdd(a, b) ==
  IF IsNum(a) /\ IsNum(b) THEN Num(a.num + b.num)
  ELSE IF a \in {NaN, Undefined} \/ b \in {NaN, Undefined} THEN
       IF IsStr(a) \/ IsStr(b) THEN Concat(a, b) ELSE NaN
  ELSE Concat(a, b)

Falsy(v) == v \in {Undefined, NaN, Whole(0), Str("")}

\* a || b
JsOr(a, b) == IF Falsy(a) THEN b ELSE a

(***************************************************************************)
(* Constants imported from ../constants and ../utils/errors.               *)
(***************************************************************************)
TRACE_START_MARK_PREFIX == "FB-PERF-TRACE-START"
TRACE_STOP_MARK_PREFIX == "FB-PERF-TRACE-STOP"
TRACE_MEASURE_PREFIX == "FB-PERF-TRACE-MEASURE"
OOB_TRACE_PAGE_LOAD_PREFIX == "_wt_"
FIRST_PAINT_COUNTER_NAME == "_fp"
FIRST_CONTENTFUL_PAINT_COUNTER_NAME == "_fcp"
FIRST_INPUT_DELAY_COUNTER_NAME == "_fid"
TRACE_STARTED_BEFORE == "trace started"
TRACE_STOPPED_BEFORE == "trace stopped"

(***************************************************************************)
(* TraceState.                                                             *)
(***************************************************************************)
UNINITIALIZED == 1
RUNNING == 2
TERMINATED == 3

(***************************************************************************)
(* The Api service: the performance-entry registry (performance.mark,      *)
(* performance.measure, performance.getEntriesByName, timeOrigin).  The    *)
(* registry is the performance timeline: append-only, kept in order of     *)
(* startTime.                                                              *)
(***************************************************************************)
InsertEntry(es, e) ==
  LET k == Cardinality({i \in 1..Len(es) : es[i].startTime.num <= e.startTime.num})
  IN SubSeq(es, 1, k) \o <<e>> \o SubSeq(es, k + 1, Len(es))

\* the entries named name, in timeline order
ApiGetEntriesByName(es, name) == SelectSeq(es, LAMBDA e : e.name = name)

\* the marks named name, the latest last
Marks(es, name) == SelectSeq(es, LAMBDA e : e.name = name /\ e.entryType = "mark")

\* api.mark(name) at the instant t
ApiMark(es, name, t) ==
  InsertEntry(es, [name |-> name, entryType |-> "mark", startTime |-> t, duration |-> Whole(0)])

\* api.measure(name, startMark, endMark): from the latest mark of the one name to the
\* latest mark of the other; no entry is made when a mark is missing
ApiMeasure(es, name, startMark, endMark) ==
  LET starts == Marks(es, startMark)
      ends == Marks(es, endMark)
  IN IF Len(starts) = 0 \/ Len(ends) = 0 THEN es
     ELSE LET s == starts[Len(starts)].startTime
              e == ends[Len(ends)].startTime
          IN InsertEntry(es, [name |-> name, entryType |-> "measure", startTime |-> s,
                              duration |-> Num(e.num - s.num)])

\* api.getTimeOrigin(): 1.0005 ms
ApiGetTimeOrigin == Frac(Den + 1)

(***************************************************************************)
(* The Trace class.                                                        *)
(***************************************************************************)
\* the object literal {} or a spread copy, with its identity
Object(id, props) == [id |-> id, props |-> props]
NoObject == Object(0, <<>>)

\* `${prefix}-${randomId}-${name}`
MarkName(prefix, randomId, name) == Str(prefix \o "-" \o ToString(randomId) \o "-" \o name)

\* calculateTraceMetrics() taking the last of the entries, not the first
calculateTraceMetricsLast(tr, es) ==
  LET perfMeasureEntries == ApiGetEntriesByName(es, tr.traceMeasure)
  IN IF Len(perfMeasureEntries) > 0
       THEN LET perfMeasureEntry == perfMeasureEntries[Len(perfMeasureEntries)]
            IN [tr EXCEPT
                  !.durationUs = MathFloor(TimesThousand(perfMeasureEntry.duration)),
                  !.startTimeUs = MathFloor(TimesThousand(
                                     JsAdd(perfMeasureEntry.startTime, ApiGetTimeOrigin)))]
       ELSE tr

\* calculateTraceMetrics()
calculateTraceMetrics(tr, es) ==
  LET perfMeasureEntries == ApiGetEntriesByName(es, tr.traceMeasure)
  IN IF Len(perfMeasureEntries) > 0
       THEN LET perfMeasureEntry == perfMeasureEntries[1]
            IN [tr EXCEPT
                  !.durationUs = MathFloor(TimesThousand(perfMeasureEntry.duration)),
                  !.startTimeUs = MathFloor(TimesThousand(
                                     JsAdd(perfMeasureEntry.startTime, ApiGetTimeOrigin)))]
       ELSE tr

\* the field initializers and the constructor
Trace(name, isAuto, traceMeasureName, randomId, attrsId, es) ==
  LET fresh == [name |-> name,
                isAuto |-> isAuto,
                state |-> UNINITIALIZED,
                startTimeUs |-> Undefined,
                durationUs |-> Undefined,
                customAttributes |-> Object(attrsId, <<>>),
                counters |-> <<>>,
                randomId |-> randomId,
                traceStartMark |-> Undefined,
                traceStopMark |-> Undefined,
                traceMeasure |-> Undefined]
  IN IF ~isAuto
       THEN LET named == [fresh EXCEPT
                  !.traceStartMark = MarkName(TRACE_START_MARK_PREFIX, randomId, name),
                  !.traceStopMark = MarkName(TRACE_STOP_MARK_PREFIX, randomId, name),
                  !.traceMeasure = JsOr(traceMeasureName,
                                        MarkName(TRACE_MEASURE_PREFIX, randomId, name))]
            IN IF ~Falsy(traceMeasureName)
                 THEN calculateTraceMetrics(named, es)
                 ELSE named
       ELSE fresh

\* logTrace(trace): the reporter receives the trace as it is at the call
logTrace(log, tr) == Append(log, tr)

\* what a call did: the trace, the registry and the reporter's log after it, the
\* error it threw (or undefined) and the value it returned
Ok(tr, es, log, value) ==
  [tr |-> tr, es |-> es, log |-> log, threw |-> Undefined, value |-> value]
Throw(tr, es, log, code) ==
  [tr |-> tr, es |-> es, log |-> log,
   threw |-> [code |-> code, traceName |-> tr.name], value |-> Undefined]

\* start() without its check of the state
startUnchecked(tr, es, log, t) ==
  Ok([tr EXCEPT !.state = RUNNING], ApiMark(es, tr.traceStartMark, t), log, Undefined)

\* start(), the mark taken at the instant t
start(tr, es, log, t) ==
  IF tr.state # UNINITIALIZED
    THEN Throw(tr, es, log, TRACE_STARTED_BEFORE)
    ELSE Ok([tr EXCEPT !.state = RUNNING], ApiMark(es, tr.traceStartMark, t), log, Undefined)

\* stop() refusing only a trace that was never started
stopAgain(tr, es, log, t) ==
  IF tr.state = UNINITIALIZED
    THEN Throw(tr, es, log, TRACE_STOPPED_BEFORE)
    ELSE LET terminated == [tr EXCEPT !.state = TERMINATED]
             marked == ApiMark(es, tr.traceStopMark, t)
             measured == ApiMeasure(marked, tr.traceMeasure, tr.traceStartMark,
                                    tr.traceStopMark)
             computed == calculateTraceMetrics(terminated, measured)
         IN Ok(computed, measured, logTrace(log, computed), Undefined)

\* stop() leaving the trace ready to be started again
stopResets(tr, es, log, t) ==
  IF tr.state # RUNNING
    THEN Throw(tr, es, log, TRACE_STOPPED_BEFORE)
    ELSE LET terminated == [tr EXCEPT !.state = UNINITIALIZED]
             marked == ApiMark(es, tr.traceStopMark, t)
             measured == ApiMeasure(marked, tr.traceMeasure, tr.traceStartMark,
                                    tr.traceStopMark)
             computed == calculateTraceMetrics(terminated, measured)
         IN Ok(computed, measured, logTrace(log, computed), Undefined)

\* stop() that measures before it makes the stop mark
stopMeasuresFirst(tr, es, log, t) ==
  IF tr.state # RUNNING
    THEN Throw(tr, es, log, TRACE_STOPPED_BEFORE)
    ELSE LET terminated == [tr EXCEPT !.state = TERMINATED]
             measured == ApiMeasure(es, tr.traceMeasure, tr.traceStartMark,
                                    tr.traceStopMark)
             marked == ApiMark(measured, tr.traceStopMark, t)
             computed == calculateTraceMetrics(terminated, marked)
         IN Ok(computed, marked, logTrace(log, computed), Undefined)

\* stop(), the mark taken at the instant t
stop(tr, es, log, t) ==
  IF tr.state # RUNNING
    THEN Throw(tr, es, log, TRACE_STOPPED_BEFORE)
    ELSE LET terminated == [tr EXCEPT !.state = TERMINATED]
             marked == ApiMark(es, tr.traceStopMark, t)
             measured == ApiMeasure(marked, tr.traceMeasure, tr.traceStartMark,
                                    tr.traceStopMark)
             computed == calculateTraceMetrics(terminated, measured)
         IN Ok(computed, measured, logTrace(log, computed), Undefined)

\* the loop of record() storing every metric, numeric or not
RECURSIVE RecordMetricsUnchecked(_, _, _)
RecordMetricsUnchecked(counters, metrics, keys) ==
  IF keys = {} THEN counters
  ELSE LET metric == CHOOSE k \in keys : TRUE
       IN RecordMetricsUnchecked(Put(counters, metric, Number(MathFloor(metrics[metric]))),
                                 metrics, keys \ {metric})

\* the loop of record() over Object.keys(options.metrics)
RECURSIVE RecordMetrics(_, _, _)
RecordMetrics(counters, metrics, keys) ==
  IF keys = {} THEN counters
  ELSE LET metric == CHOOSE k \in keys : TRUE
           next == IF ~isNaN(Number(metrics[metric]))
                     THEN Put(counters, metric, Number(MathFloor(metrics[metric])))
                     ELSE counters
       IN RecordMetrics(next, metrics, keys \ {metric})

\* record() that does not hand the trace to the reporter
recordUnreported(tr, es, log, startTime, duration, options, attrsId) ==
  LET timed == [tr EXCEPT !.durationUs = MathFloor(TimesThousand(duration)),
                          !.startTimeUs = MathFloor(TimesThousand(startTime))]
      attributed == IF options # Undefined /\ options.attributes # Undefined
                      THEN [timed EXCEPT
                              !.customAttributes = Object(attrsId, options.attributes.props)]
                      ELSE timed
      counted == IF options # Undefined /\ options.metrics # Undefined
                   THEN [attributed EXCEPT
                           !.counters = RecordMetrics(@, options.metrics.props,
                                                      DOMAIN options.metrics.props)]
                   ELSE attributed
  IN Ok(counted, es, log, Undefined)

\* record() that ends the trace: it leaves the state TERMINATED
recordTerminates(tr, es, log, startTime, duration, options, attrsId) ==
  LET timed == [tr EXCEPT !.durationUs = MathFloor(TimesThousand(duration)),
                          !.startTimeUs = MathFloor(TimesThousand(startTime)),
                          !.state = TERMINATED]
      attributed == IF options # Undefined /\ options.attributes # Undefined
                      THEN [timed EXCEPT
                              !.customAttributes = Object(attrsId, options.attributes.props)]
                      ELSE timed
      counted == IF options # Undefined /\ options.metrics # Undefined
                   THEN [attributed EXCEPT
                           !.counters = RecordMetrics(@, options.metrics.props,
                                                      DOMAIN options.metrics.props)]
                   ELSE attributed
  IN Ok(counted, es, logTrace(log, counted), Undefined)

\* record() that adds the given attributes to the ones the trace has
recordMergesAttributes(tr, es, log, startTime, duration, options, attrsId) ==
  LET timed == [tr EXCEPT !.durationUs = MathFloor(TimesThousand(duration)),
                          !.startTimeUs = MathFloor(TimesThousand(startTime))]
      attributed == IF options # Undefined /\ options.attributes # Undefined
                      THEN [timed EXCEPT
                              !.customAttributes =
                                 Object(attrsId, options.attributes.props @@ @.props)]
                      ELSE timed
      counted == IF options # Undefined /\ options.metrics # Undefined
                   THEN [attributed EXCEPT
                           !.counters = RecordMetrics(@, options.metrics.props,
                                                      DOMAIN options.metrics.props)]
                   ELSE attributed
  IN Ok(counted, es, logTrace(log, counted), Undefined)

\* record(startTime, duration, options); attrsId is the identity of the spread copy
record(tr, es, log, startTime, duration, options, attrsId) ==
  LET timed == [tr EXCEPT !.durationUs = MathFloor(TimesThousand(duration)),
                          !.startTimeUs = MathFloor(TimesThousand(startTime))]
      attributed == IF options # Undefined /\ options.attributes # Undefined
                      THEN [timed EXCEPT
                              !.customAttributes = Object(attrsId, options.attributes.props)]
                      ELSE timed
      counted == IF options # Undefined /\ options.metrics # Undefined
                   THEN [attributed EXCEPT
                           !.counters = RecordMetrics(@, options.metrics.props,
                                                      DOMAIN options.metrics.props)]
                   ELSE attributed
  IN Ok(counted, es, logTrace(log, counted), Undefined)

\* incrementMetric(counter, num = 1)
incrementMetric(tr, es, log, counter, num) ==
  LET by == IF num = Undefined THEN Whole(1) ELSE num
      initialized == IF Get(tr.counters, counter) = Undefined
                       THEN Put(tr.counters, counter, Whole(0))
                       ELSE tr.counters
      added == Put(initialized, counter, JsAdd(Get(initialized, counter), by))
  IN Ok([tr EXCEPT !.counters = added], es, log, Undefined)

\* putMetric() that starts the counters anew with the one it sets
putMetricResets(tr, es, log, counter, num) ==
  Ok([tr EXCEPT !.counters = Put(<<>>, counter, num)], es, log, Undefined)

\* putMetric(counter, num)
putMetric(tr, es, log, counter, num) ==
  Ok([tr EXCEPT !.counters = Put(@, counter, num)], es, log, Undefined)

\* getMetric(counter)
getMetric(tr, es, log, counter) ==
  Ok(tr, es, log, JsOr(Get(tr.counters, counter), Whole(0)))

\* putAttribute(attr, value)
putAttribute(tr, es, log, attr, value) ==
  Ok([tr EXCEPT !.customAttributes.props = Put(@, attr, value)], es, log, Undefined)

\* getAttribute(attr)
getAttribute(tr, es, log, attr) ==
  Ok(tr, es, log, Get(tr.customAttributes.props, attr))

\* removeAttribute(attr)
removeAttribute(tr, es, log, attr) ==
  IF Get(tr.customAttributes.props, attr) = Undefined
    THEN Ok(tr, es, log, Undefined)
    ELSE Ok([tr EXCEPT !.customAttributes.props = Delete(@, attr)], es, log, Undefined)

\* getAttributes() returning the map itself
getAttributesAliased(tr, es, log, copyId) ==
  Ok(tr, es, log, tr.customAttributes)

\* getAttributes(); copyId is the identity of the spread copy
getAttributes(tr, es, log, copyId) ==
  Ok(tr, es, log, Object(copyId, tr.customAttributes.props))

\* setStartTime(startTime)
setStartTime(tr, startTime) == [tr EXCEPT !.startTimeUs = startTime]

\* setDuration() assigning the other field
setDurationAsStart(tr, duration) == [tr EXCEPT !.startTimeUs = duration]

\* setDuration(duration)
setDuration(tr, duration) == [tr EXCEPT !.durationUs = duration]

\* paintTimings.find(paintObject => paintObject.name === name)
Find(paintTimings, name) ==
  LET found == SelectSeq(paintTimings.array, LAMBDA paintObject : paintObject.name = name)
  IN IF Len(found) > 0 THEN found[1] ELSE Undefined

\* createOobTrace() without the return when there is no route
createOobTraceAnyRoute(es, log, route, navigationTimings, paintTimings, firstInputDelay, randomId, attrsId) ==
  LET inc(tr, counter, num) == incrementMetric(tr, es, log, counter, num).tr
      trace == Trace(OOB_TRACE_PAGE_LOAD_PREFIX
                       \o (IF route = Undefined THEN "undefined" ELSE route.str), TRUE, Undefined,
                     randomId, attrsId, es)
      timeOriginUs == MathFloor(TimesThousand(ApiGetTimeOrigin))
      started == setStartTime(trace, timeOriginUs)
      navigated ==
        IF navigationTimings # Undefined /\ Len(navigationTimings.array) > 0
          THEN LET nav == navigationTimings.array[1]
                   d == setDuration(started, MathFloor(TimesThousand(nav.duration)))
                   i == inc(d, "domInteractive",
                            MathFloor(TimesThousand(nav.domInteractive)))
                   c == inc(i, "domContentLoadedEventEnd",
                            MathFloor(TimesThousand(nav.domContentLoadedEventEnd)))
               IN inc(c, "loadEventEnd", MathFloor(TimesThousand(nav.loadEventEnd)))
          ELSE started
      painted ==
        IF paintTimings # Undefined
          THEN LET firstPaint == Find(paintTimings, Str("first-paint"))
                   fp == IF firstPaint # Undefined /\ ~Falsy(firstPaint.startTime)
                           THEN inc(navigated, FIRST_PAINT_COUNTER_NAME,
                                    MathFloor(TimesThousand(firstPaint.startTime)))
                           ELSE navigated
                   firstContentfulPaint == Find(paintTimings, Str("first-contentful-paint"))
                   fcp == IF firstContentfulPaint # Undefined
                             /\ ~Falsy(firstContentfulPaint.startTime)
                            THEN inc(fp, FIRST_CONTENTFUL_PAINT_COUNTER_NAME,
                                     MathFloor(TimesThousand(firstContentfulPaint.startTime)))
                            ELSE fp
               IN IF ~Falsy(firstInputDelay)
                    THEN inc(fcp, FIRST_INPUT_DELAY_COUNTER_NAME,
                             MathFloor(TimesThousand(firstInputDelay)))
                    ELSE fcp
          ELSE navigated
  IN Ok(painted, es, logTrace(log, painted), Undefined)

\* static createOobTrace(navigationTimings, paintTimings, firstInputDelay); route is
\* what Api.getUrl() returns
createOobTrace(es, log, route, navigationTimings, paintTimings, firstInputDelay, randomId, attrsId) ==
  IF Falsy(route) THEN Ok(Undefined, es, log, Undefined)
  ELSE
  LET inc(tr, counter, num) == incrementMetric(tr, es, log, counter, num).tr
      trace == Trace(OOB_TRACE_PAGE_LOAD_PREFIX \o route.str, TRUE, Undefined,
                     randomId, attrsId, es)
      timeOriginUs == MathFloor(TimesThousand(ApiGetTimeOrigin))
      started == setStartTime(trace, timeOriginUs)
      navigated ==
        IF navigationTimings # Undefined /\ Len(navigationTimings.array) > 0
          THEN LET nav == navigationTimings.array[1]
                   d == setDuration(started, MathFloor(TimesThousand(nav.duration)))
                   i == inc(d, "domInteractive",
                            MathFloor(TimesThousand(nav.domInteractive)))
                   c == inc(i, "domContentLoadedEventEnd",
                            MathFloor(TimesThousand(nav.domContentLoadedEventEnd)))
               IN inc(c, "loadEventEnd", MathFloor(TimesThousand(nav.loadEventEnd)))
          ELSE started
      painted ==
        IF paintTimings # Undefined
          THEN LET firstPaint == Find(paintTimings, Str("first-paint"))
                   fp == IF firstPaint # Undefined /\ ~Falsy(firstPaint.startTime)
                           THEN inc(navigated, FIRST_PAINT_COUNTER_NAME,
                                    MathFloor(TimesThousand(firstPaint.startTime)))
                           ELSE navigated
                   firstContentfulPaint == Find(paintTimings, Str("first-contentful-paint"))
                   fcp == IF firstContentfulPaint # Undefined
                             /\ ~Falsy(firstContentfulPaint.startTime)
                            THEN inc(fp, FIRST_CONTENTFUL_PAINT_COUNTER_NAME,
                                     MathFloor(TimesThousand(firstContentfulPaint.startTime)))
                            ELSE fp
               IN IF ~Falsy(firstInputDelay)
                    THEN inc(fcp, FIRST_INPUT_DELAY_COUNTER_NAME,
                             MathFloor(TimesThousand(firstInputDelay)))
                    ELSE fcp
          ELSE navigated
  IN Ok(painted, es, logTrace(log, painted), Undefined)

\* static createUserTimingTrace(measureName)
createUserTimingTrace(es, log, measureName, randomId, attrsId) ==
  LET trace == Trace(measureName, FALSE, Str(measureName), randomId, attrsId, es)
  IN Ok(trace, es, logTrace(log, trace), Undefined)

(***************************************************************************)
(* The inputs of the calls.                                                *)
(***************************************************************************)
RandomIdRange == 1000000

TraceNames == {"t"}
RandomIds == {0, RandomIdRange - 1}
MeasureNames == {"m"}
\* the names of the measures of the user timing traces: performance.measure("m"),
\* performance.measure("")
UserTimingNames == {"m", ""}
\* time that passes before a mark: 0.0005 ms, 1.5005 ms
Ticks == {1, Den + (Den \div 2) + 1}
CounterNames == {"x", "constructor"}
\* no argument (incrementMetric only), 5, 3.7
MetricNums == {Whole(5), Frac(7400)}
AttrNames == {"a", "constructor"}
AttrValues == {Str("1")}
\* record(1000, 250) and record(0.0015, 1.5005)
RecordTimes == {<<Whole(1000), Whole(250)>>, <<Frac(3), Frac(3001)>>}
RecordAttributes == {Undefined, ("k" :> Str("v"))}
\* {m: 2.9}, {m: "not-a-number", x: "2.9"}, {x: -0.5, constructor: "not-a-number"}
RecordMetricsArgs ==
  {Undefined,
   Object(0, ("m" :> Frac(5800))),
   Object(0, ("m" :> Str("not-a-number")) @@ ("x" :> Str("2.9"))),
   Object(0, ("x" :> Frac(0 - 1000)) @@ ("constructor" :> Str("not-a-number")))}
Routes == {Undefined, Str("/")}
NavigationTimings ==
  {Undefined, Array(<<>>),
   Array(<<[duration |-> Frac(3001), domInteractive |-> Frac(1000),
            domContentLoadedEventEnd |-> Frac(1001), loadEventEnd |-> Frac(2003)]>>)}
PaintTimings ==
  {Undefined, Array(<<>>),
   Array(<<[name |-> Str("first-paint"), startTime |-> Frac(1001)],
           [name |-> Str("first-contentful-paint"), startTime |-> Whole(0)]>>),
   Array(<<[name |-> Str("first-contentful-paint"), startTime |-> Frac(3001)],
           [name |-> Str("first-paint"), startTime |-> Frac(2001)],
           [name |-> Str("first-paint"), startTime |-> Frac(5)]>>)}
FirstInputDelays == {Undefined, Whole(0), Frac(2001)}
\* the page-load timings in the runs of every operation: none, and all three
OobTimings ==
  {<<Undefined, Undefined, Undefined>>,
   <<Array(<<[duration |-> Frac(3001), domInteractive |-> Frac(1000),
              domContentLoadedEventEnd |-> Frac(1001), loadEventEnd |-> Frac(2003)]>>),
     Array(<<[name |-> Str("first-paint"), startTime |-> Frac(1001)],
             [name |-> Str("first-contentful-paint"), startTime |-> Whole(0)]>>),
     Frac(2001)>>}

(***************************************************************************)
(* The calls.                                                              *)
(***************************************************************************)
\* the identity given to a new object: the first one no object in use has
Unused(used) ==
  CHOOSE n \in 1..(Cardinality(used) + 1) : n \notin used /\ \A m \in 1..(n - 1) : m \in used

\* the identities of the attribute maps of the traces
TraceObjects == {traces[i].customAttributes.id : i \in 1..Len(traces)}

Live == 1..Len(traces)

\* the caller's map after a call on a trace: the same object, if it is the trace's
Shared(tr) == IF held.id = tr.customAttributes.id THEN tr.customAttributes ELSE held

\* a call on trace t took effect as r
Commit(t, op, args, r, reports) ==
  /\ ops < MaxOps
  /\ traces' = [traces EXCEPT ![t] = r.tr]
  /\ entries' = r.es
  /\ logged' = r.log
  /\ ret' = [op |-> op, t |-> t, args |-> args, threw |-> r.threw, value |-> r.value]
  /\ ops' = ops + 1
  /\ reportingCalls' = reportingCalls + (IF reports THEN 1 ELSE 0)

\* new Trace(name): performance.trace(name)
CallConstruct(name, randomId) ==
  /\ Len(traces) < MaxTraces
  /\ ops < MaxOps
  /\ traces' = Append(traces, Trace(name, FALSE, Undefined, randomId,
                                  Unused(TraceObjects \cup {held.id}), entries))
  /\ ret' = [op |-> "new", t |-> Len(traces) + 1, args |-> <<name>>,
             threw |-> Undefined, value |-> Undefined]
  /\ ops' = ops + 1
  /\ UNCHANGED <<entries, now, logged, held, reportingCalls>>

CallStart(t, dt) ==
  /\ now' = Num(now.num + dt)
  /\ Commit(t, "start", <<>>, start(traces[t], entries, logged, now'), FALSE)
  /\ UNCHANGED held

CallStop(t, dt) ==
  /\ now' = Num(now.num + dt)
  /\ Commit(t, "stop", <<>>, stop(traces[t], entries, logged, now'),
            traces[t].state = RUNNING)
  /\ UNCHANGED held

\* record(startTime, duration) and record(startTime, duration, options); the caller
\* keeps the attributes object it passed
CallRecord(t, times, attributes, metrics) ==
  LET passed == IF attributes = Undefined THEN Undefined
                ELSE Object(Unused(TraceObjects), attributes)
      copyId == Unused(TraceObjects \cup {held.id}
                         \cup (IF passed = Undefined THEN {} ELSE {passed.id}))
      options == IF attributes = Undefined /\ metrics = Undefined THEN Undefined
                 ELSE [attributes |-> passed, metrics |-> metrics]
  IN /\ Commit(t, "record", <<times[1], times[2], options>>,
               record(traces[t], entries, logged, times[1], times[2], options, copyId),
               TRUE)
     /\ held' = IF passed = Undefined THEN held ELSE passed
     /\ UNCHANGED now

CallIncrementMetric(t, counter, num) ==
  /\ Commit(t, "incrementMetric", <<counter, num>>,
            incrementMetric(traces[t], entries, logged, counter, num), FALSE)
  /\ UNCHANGED <<now, held>>

CallPutMetric(t, counter, num) ==
  /\ Commit(t, "putMetric", <<counter, num>>,
            putMetric(traces[t], entries, logged, counter, num), FALSE)
  /\ UNCHANGED <<now, held>>

CallGetMetric(t, counter) ==
  /\ Commit(t, "getMetric", <<counter>>,
            getMetric(traces[t], entries, logged, counter), FALSE)
  /\ UNCHANGED <<now, held>>

CallPutAttribute(t, attr, value) ==
  LET r == putAttribute(traces[t], entries, logged, attr, value)
  IN /\ Commit(t, "putAttribute", <<attr, value>>, r, FALSE)
     /\ held' = Shared(r.tr)
     /\ UNCHANGED now

CallGetAttribute(t, attr) ==
  /\ Commit(t, "getAttribute", <<attr>>,
            getAttribute(traces[t], entries, logged, attr), FALSE)
  /\ UNCHANGED <<now, held>>

CallRemoveAttribute(t, attr) ==
  LET r == removeAttribute(traces[t], entries, logged, attr)
  IN /\ Commit(t, "removeAttribute", <<attr>>, r, FALSE)
     /\ held' = Shared(r.tr)
     /\ UNCHANGED now

\* getAttributes(): the caller holds the returned map
CallGetAttributes(t) ==
  LET r == getAttributes(traces[t], entries, logged, Unused(TraceObjects))
  IN /\ Commit(t, "getAttributes", <<>>, r, FALSE)
     /\ held' = r.value
     /\ UNCHANGED now

\* the caller changes the map it holds: held[key] = value, or delete held[key]
CallerMutates(key, value) ==
  LET props == IF value = Undefined THEN Delete(held.props, key)
               ELSE Put(held.props, key, value)
      changed == Object(held.id, props)
  IN /\ held # NoObject
     /\ ops < MaxOps
     /\ props # held.props
     /\ held' = changed
     /\ traces' = [i \in Live |->
                     IF traces[i].customAttributes.id = held.id
                       THEN [traces[i] EXCEPT !.customAttributes = changed]
                       ELSE traces[i]]
     /\ ret' = [op |-> "mutate", t |-> 0, args |-> <<key, value>>,
                threw |-> Undefined, value |-> Undefined]
     /\ ops' = ops + 1
     /\ UNCHANGED <<entries, now, logged, reportingCalls>>

\* a static factory call took effect as r
CommitStatic(op, args, r, reports) ==
  /\ ops < MaxOps
  /\ entries' = r.es
  /\ logged' = r.log
  /\ ret' = [op |-> op, t |-> 0, args |-> args, threw |-> r.threw, value |-> r.value]
  /\ ops' = ops + 1
  /\ reportingCalls' = reportingCalls + (IF reports THEN 1 ELSE 0)
  /\ UNCHANGED <<traces, now, held>>

CallCreateOobTrace(route, navigationTimings, paintTimings, firstInputDelay, randomId) ==
  CommitStatic("createOobTrace",
               <<route, navigationTimings, paintTimings, firstInputDelay>>,
               createOobTrace(entries, logged, route, navigationTimings, paintTimings,
                              firstInputDelay, randomId, Unused(TraceObjects \cup {held.id})),
               route # Undefined)

CallCreateUserTimingTrace(measureName, randomId) ==
  CommitStatic("createUserTimingTrace", <<measureName>>,
               createUserTimingTrace(entries, logged, measureName, randomId,
                                     Unused(TraceObjects \cup {held.id})),
               TRUE)

\* code outside the library measures an interval itself: performance.measure(name)
\* over the last dt of time
UserMeasure(name, dt) ==
  /\ ops < MaxOps
  /\ now' = Num(now.num + dt)
  /\ entries' = InsertEntry(entries, [name |-> Str(name), entryType |-> "measure",
                                      startTime |-> now, duration |-> Num(dt)])
  /\ ret' = [op |-> "measure", t |-> 0, args |-> <<name>>,
             threw |-> Undefined, value |-> Undefined]
  /\ ops' = ops + 1
  /\ UNCHANGED <<traces, logged, held, reportingCalls>>

Init ==
  /\ traces = <<>>
  /\ entries = <<>>
  /\ now = Whole(0)
  /\ logged = <<>>
  /\ held = NoObject
  /\ ret = [op |-> "init", t |-> 0, args |-> <<>>, threw |-> Undefined, value |-> Undefined]
  /\ ops = 0
  /\ reportingCalls = 0

\* every operation, each with one or two representative arguments
Next ==
  \/ \E name \in TraceNames, randomId \in RandomIds : CallConstruct(name, randomId)
  \/ \E t \in Live : CallStart(t, Den + 1)
  \/ \E t \in Live : CallStop(t, Den + 1)
  \/ \E t \in Live, attributes \in RecordAttributes :
        CallRecord(t, <<Whole(1000), Whole(250)>>, attributes,
                   IF attributes = Undefined THEN Undefined
                   ELSE Object(0, ("m" :> Frac(5800))))
  \/ \E t \in Live : CallIncrementMetric(t, "x", Undefined)
  \/ \E t \in Live : CallPutMetric(t, "x", Whole(5))
  \/ \E t \in Live : CallGetMetric(t, "x")
  \/ \E t \in Live : CallPutAttribute(t, "a", Str("1"))
  \/ \E t \in Live : CallGetAttribute(t, "a")
  \/ \E t \in Live : CallRemoveAttribute(t, "a")
  \/ \E t \in Live : CallGetAttributes(t)
  \/ \E value \in AttrValues \cup {Undefined} : CallerMutates("a", value)
  \/ \E route \in Routes, timings \in OobTimings :
        CallCreateOobTrace(route, timings[1], timings[2], timings[3], 0)
  \/ \E measureName \in MeasureNames : CallCreateUserTimingTrace(measureName, 0)
  \/ \E name \in MeasureNames : UserMeasure(name, Den + 1)

Spec == Init /\ [][Next]_vars

(***************************************************************************)
(* The metrics and attributes of one trace: record() and the mutators and  *)
(* getters, over fractional, negative and non-numeric arguments and over   *)
(* names that Object.prototype defines.                                    *)
(***************************************************************************)
InitData ==
  /\ traces = <<Trace("t", FALSE, Undefined, 0, 1, <<>>)>>
  /\ entries = <<>>
  /\ now = Whole(0)
  /\ logged = <<>>
  /\ held = NoObject
  /\ ret = [op |-> "new", t |-> 1, args |-> <<"t">>, threw |-> Undefined,
            value |-> Undefined]
  /\ ops = 0
  /\ reportingCalls = 0

DataRecord ==
  /\ ops < MaxDataOps
  /\ \E times \in RecordTimes, attributes \in RecordAttributes,
        metrics \in RecordMetricsArgs : CallRecord(1, times, attributes, metrics)

DataIncrementMetric ==
  /\ ops < MaxDataOps
  /\ \E counter \in CounterNames, num \in MetricNums \cup {Undefined} :
        CallIncrementMetric(1, counter, num)

DataPutMetric ==
  /\ ops < MaxDataOps
  /\ \E counter \in CounterNames, num \in MetricNums : CallPutMetric(1, counter, num)

DataGetMetric ==
  /\ ops < MaxDataOps
  /\ \E counter \in CounterNames \cup {"m"} : CallGetMetric(1, counter)

DataPutAttribute ==
  /\ ops < MaxDataOps
  /\ \E attr \in AttrNames, value \in AttrValues : CallPutAttribute(1, attr, value)

DataGetAttribute ==
  /\ ops < MaxDataOps
  /\ \E attr \in AttrNames \cup {"k"} : CallGetAttribute(1, attr)

DataRemoveAttribute ==
  /\ ops < MaxDataOps
  /\ \E attr \in AttrNames : CallRemoveAttribute(1, attr)

DataGetAttributes ==
  /\ ops < MaxDataOps
  /\ CallGetAttributes(1)

DataCallerMutates ==
  /\ ops < MaxDataOps
  /\ \E key \in AttrNames, value \in AttrValues \cup {Undefined} : CallerMutates(key, value)

NextData ==
  \/ DataRecord
  \/ DataIncrementMetric
  \/ DataPutMetric
  \/ DataGetMetric
  \/ DataPutAttribute
  \/ DataGetAttribute
  \/ DataRemoveAttribute
  \/ DataGetAttributes
  \/ DataCallerMutates

SpecData == InitData /\ [][NextData]_vars

(***************************************************************************)
(* C1.  start() on a trace that is not UNINITIALIZED (RUNNING or           *)
(* TERMINATED) throws the trace-started error carrying the trace's name    *)
(* and changes nothing: the trace (state, startTimeUs, durationUs,         *)
(* counters, attributes) is as before, the registry gets no mark and the   *)
(* reporter is not called.                                                 *)
(***************************************************************************)
C1_StartRejected ==
  [][(ret'.op = "start" /\ traces[ret'.t].state # UNINITIALIZED)
       => /\ ret'.threw = [code |-> TRACE_STARTED_BEFORE,
                           traceName |-> traces[ret'.t].name]
          /\ traces' = traces
          /\ entries' = entries
          /\ logged' = logged]_vars

\* start() was refused on a TERMINATED trace
C1_Witness ==
  /\ ret.op = "start"
  /\ ret.threw # Undefined
  /\ traces[ret.t].state = TERMINATED

(***************************************************************************)
(* C2.  stop() on a trace that is not RUNNING (UNINITIALIZED or            *)
(* TERMINATED) throws the trace-stopped error carrying the trace's name    *)
(* and changes nothing: the trace is as before, the registry gets no mark  *)
(* and no measure, and the reporter is not called.                         *)
(***************************************************************************)
C2_StopRejected ==
  [][(ret'.op = "stop" /\ traces[ret'.t].state # RUNNING)
       => /\ ret'.threw = [code |-> TRACE_STOPPED_BEFORE,
                           traceName |-> traces[ret'.t].name]
          /\ traces' = traces
          /\ entries' = entries
          /\ logged' = logged]_vars

\* stop() was refused on a TERMINATED trace that had been reported
C2_Witness ==
  /\ ret.op = "stop"
  /\ ret.threw # Undefined
  /\ traces[ret.t].state = TERMINATED
  /\ Len(logged) = 1

(***************************************************************************)
(* C3.  The state of a trace only moves forward.  In every step each trace *)
(* keeps its state, or goes from UNINITIALIZED to RUNNING by a start()     *)
(* that did not throw, or from RUNNING to TERMINATED by a stop() that did  *)
(* not throw; a start() or stop() that did not throw made that move; a new *)
(* trace is UNINITIALIZED.  So no trace has two successful start() or two  *)
(* successful stop() calls.                                                *)
(***************************************************************************)
C3_StateForward ==
  [][/\ \A t \in 1..Len(traces) :
          LET before == traces[t].state
              after == traces'[t].state
              by(op) == ret'.op = op /\ ret'.t = t /\ ret'.threw = Undefined
          IN /\ \/ after = before
                \/ before = UNINITIALIZED /\ after = RUNNING /\ by("start")
                \/ before = RUNNING /\ after = TERMINATED /\ by("stop")
             /\ by("start") => before = UNINITIALIZED /\ after = RUNNING
             /\ by("stop") => before = RUNNING /\ after = TERMINATED
     /\ \A t \in (Len(traces) + 1)..Len(traces') : traces'[t].state = UNINITIALIZED
    ]_vars

\* a trace went all the way to TERMINATED and was then recorded
C3_Witness ==
  /\ ret.op = "record"
  /\ traces[ret.t].state = TERMINATED

(***************************************************************************)
(* C4.  The reporter is called exactly once by every stop() that does not  *)
(* throw, every record(), every createUserTimingTrace() and every          *)
(* createOobTrace() that has a route, with the trace as the call left it,  *)
(* and by nothing else; so the number of report calls is the number of     *)
(* those operations.                                                       *)
(***************************************************************************)
C4_ReportsOnce ==
  /\ [](Len(logged) = reportingCalls)
  /\ [][LET reporting ==
              \/ ret'.op = "stop" /\ ret'.threw = Undefined
              \/ ret'.op \in {"record", "createUserTimingTrace"}
              \/ ret'.op = "createOobTrace" /\ ret'.args[1] # Undefined
        IN IF reporting
             THEN /\ Len(logged') = Len(logged) + 1
                  /\ SubSeq(logged', 1, Len(logged)) = logged
                  /\ ret'.t > 0 => logged'[Len(logged')] = traces'[ret'.t]
             ELSE logged' = logged]_vars

\* two reports were made, and calls that report nothing too
C4_Witness ==
  /\ Len(logged) = 2
  /\ ops = 5
  /\ ret.op = "stop"
  /\ ret.threw # Undefined

(***************************************************************************)
(* The page-load factory alone, over the timings it may be given.          *)
(***************************************************************************)
OobCreate ==
  /\ ops < MaxOobOps
  /\ \E route \in Routes, nav \in NavigationTimings, paint \in PaintTimings,
        fid \in FirstInputDelays : CallCreateOobTrace(route, nav, paint, fid, 0)

NextOob == OobCreate

SpecOob == Init /\ [][NextOob]_vars

(***************************************************************************)
(* What the claims call whole, numeric and the floor of a value.           *)
(***************************************************************************)
\* w is the whole number with w <= x/Den < w + 1
IsFloorOf(w, x) == IsWhole(w) /\ w.num <= x /\ x < w.num + Den

\* v is not numeric after coercion
NonNumeric(v) == IsStr(v) /\ v.str \notin NumericStrings \cup {""}

\* the number v is after coercion, in units of 1/Den
NumericValue(v) == IF IsStr(v) THEN ParseNumeric(v.str).num ELSE v.num

(***************************************************************************)
(* C5.  Every stored counter is a whole number, whatever putMetric,        *)
(* incrementMetric and record were given, and getMetric returns a whole    *)
(* number: putMetric("x", 3.7) then getMetric("x") gives 3.                *)
(***************************************************************************)
C5_CountersWhole ==
  /\ \A t \in 1..Len(traces) :
       \A c \in DOMAIN traces[t].counters : IsWhole(traces[t].counters[c])
  /\ ret.op = "getMetric" => IsWhole(ret.value)

(***************************************************************************)
(* C6.  incrementMetric(name, delta), delta 1 when not given, sets the     *)
(* counter to delta when it was absent and to its value plus delta when it *)
(* was present, and changes no other counter; so on a metric that was      *)
(* absent the counter is the sum of the deltas.                            *)
(***************************************************************************)
C6_IncrementAdds ==
  [][ret'.op = "incrementMetric"
       => LET t == ret'.t
              c == ret'.args[1]
              by == IF ret'.args[2] = Undefined THEN Whole(1) ELSE ret'.args[2]
              old == IF c \in DOMAIN traces[t].counters
                       THEN traces[t].counters[c] ELSE Whole(0)
          IN /\ IsNum(old)
             /\ traces'[t].counters = Put(traces[t].counters, c, Num(old.num + by.num))
    ]_vars

\* C6 for the names Object.prototype does not define
IncrementAddsOwnNames ==
  [][(ret'.op = "incrementMetric" /\ ret'.args[1] \notin ObjectPrototypeKeys)
       => LET t == ret'.t
              c == ret'.args[1]
              by == IF ret'.args[2] = Undefined THEN Whole(1) ELSE ret'.args[2]
              old == IF c \in DOMAIN traces[t].counters
                       THEN traces[t].counters[c] ELSE Whole(0)
          IN /\ IsNum(old)
             /\ traces'[t].counters = Put(traces[t].counters, c, Num(old.num + by.num))
    ]_vars

(***************************************************************************)
(* C7.  On a name with no stored counter getMetric returns 0; on a name    *)
(* with no stored attribute getAttribute returns undefined and             *)
(* removeAttribute throws nothing; and none of the three changes the       *)
(* trace.                                                                  *)
(***************************************************************************)
C7_AbsentKeys ==
  [][LET t == ret'.t
         name == ret'.args[1]
     IN /\ (ret'.op = "getMetric" /\ name \notin DOMAIN traces[t].counters)
             => ret'.value = Whole(0) /\ ret'.threw = Undefined /\ traces' = traces
        /\ (ret'.op = "getAttribute"
              /\ name \notin DOMAIN traces[t].customAttributes.props)
             => ret'.value = Undefined /\ ret'.threw = Undefined /\ traces' = traces
        /\ (ret'.op = "removeAttribute"
              /\ name \notin DOMAIN traces[t].customAttributes.props)
             => ret'.threw = Undefined /\ traces' = traces
    ]_vars

\* C7 for the names Object.prototype does not define
AbsentOwnNames ==
  [][LET t == ret'.t
         name == ret'.args[1]
     IN /\ (ret'.op = "getMetric" /\ name \notin DOMAIN traces[t].counters
              /\ name \notin ObjectPrototypeKeys)
             => ret'.value = Whole(0) /\ ret'.threw = Undefined /\ traces' = traces
        /\ (ret'.op = "getAttribute"
              /\ name \notin DOMAIN traces[t].customAttributes.props
              /\ name \notin ObjectPrototypeKeys)
             => ret'.value = Undefined /\ ret'.threw = Undefined /\ traces' = traces
        /\ (ret'.op = "removeAttribute"
              /\ name \notin DOMAIN traces[t].customAttributes.props)
             => ret'.threw = Undefined /\ traces' = traces
    ]_vars

(***************************************************************************)
(* C8.  getAttributes() returns a map equal to the trace's attribute map   *)
(* and distinct from it ({a: "1"} after putAttribute("a", "1") on a fresh  *)
(* trace), and whatever the caller then does to the map it holds, the      *)
(* trace, and so what getAttributes() and getAttribute() return later, is  *)
(* unchanged.                                                              *)
(***************************************************************************)
C8_AttributesCopied ==
  /\ [](ret.op = "getAttributes"
          => /\ ret.value.props = traces[ret.t].customAttributes.props
             /\ ret.value.id \notin TraceObjects)
  /\ [][/\ ret'.op = "mutate" => traces' = traces
        /\ (ops = 1 /\ ret.op = "putAttribute" /\ ret.args = <<"a", Str("1")>>
              /\ ret'.op = "getAttributes")
             => ret'.value.props = ("a" :> Str("1"))]_vars

\* the caller deleted a key of the map it got; the trace still has it
C8_Witness ==
  /\ ret.op = "mutate"
  /\ held.props = <<>>
  /\ traces[1].customAttributes.props = ("a" :> Str("1"))

(***************************************************************************)
(* C9.  record(startTime, duration, options) sets startTimeUs to           *)
(* floor(startTime * 1000) and durationUs to floor(duration * 1000),       *)
(* stores the floor of every numeric metric of options.metrics, stores the *)
(* given attributes, and reports the trace once; record(1000, 250, ...)    *)
(* gives startTimeUs 1000000 and durationUs 250000.                        *)
(***************************************************************************)
C9_RecordSets ==
  [][ret'.op = "record"
       => LET tr == traces'[ret'.t]
              startTime == ret'.args[1]
              duration == ret'.args[2]
              options == ret'.args[3]
          IN /\ IsFloorOf(tr.startTimeUs, startTime.num * 1000)
             /\ IsFloorOf(tr.durationUs, duration.num * 1000)
             /\ (startTime = Whole(1000) /\ duration = Whole(250))
                  => tr.startTimeUs = Whole(1000000) /\ tr.durationUs = Whole(250000)
             /\ (options # Undefined /\ options.metrics # Undefined)
                  => \A k \in DOMAIN options.metrics.props :
                       ~NonNumeric(options.metrics.props[k])
                         => /\ k \in DOMAIN tr.counters
                            /\ IsFloorOf(tr.counters[k],
                                         NumericValue(options.metrics.props[k]))
             /\ (options # Undefined /\ options.attributes # Undefined)
                  => tr.customAttributes.props = options.attributes.props
             /\ Len(logged') = Len(logged) + 1
             /\ logged'[Len(logged')] = tr
    ]_vars

\* record(1000, 250, {metrics: {m: 2.9}, attributes: {k: "v"}}), then getMetric("m")
C9_Witness ==
  /\ ret.op = "getMetric"
  /\ ret.args = <<"m">>
  /\ ret.value = Whole(2)
  /\ traces[1].startTimeUs = Whole(1000000)
  /\ traces[1].durationUs = Whole(250000)
  /\ traces[1].customAttributes.props = ("k" :> Str("v"))
  /\ Len(logged) = 1

(***************************************************************************)
(* C10.  record() throws nothing on a metric that is not numeric: the      *)
(* counter of that name is as before the call (absent if it was absent),   *)
(* every numeric metric of the same call is stored, and the trace is       *)
(* reported once.                                                          *)
(***************************************************************************)
C10_NonNumericDropped ==
  [][(ret'.op = "record" /\ ret'.args[3] # Undefined
        /\ ret'.args[3].metrics # Undefined)
       => LET before == traces[ret'.t].counters
              after == traces'[ret'.t].counters
              metrics == ret'.args[3].metrics.props
          IN /\ ret'.threw = Undefined
             /\ \A k \in DOMAIN metrics :
                  IF NonNumeric(metrics[k])
                    THEN /\ k \in DOMAIN after <=> k \in DOMAIN before
                         /\ k \in DOMAIN before => after[k] = before[k]
                    ELSE k \in DOMAIN after /\ IsWhole(after[k])
             /\ Len(logged') = Len(logged) + 1
    ]_vars

\* record(..., {metrics: {m: "not-a-number", x: "2.9"}}) on a trace without m
C10_Witness ==
  /\ ret.op = "record"
  /\ ret.args[3] # Undefined
  /\ ret.args[3].metrics = Object(0, ("m" :> Str("not-a-number")) @@ ("x" :> Str("2.9")))
  /\ "m" \notin DOMAIN traces[1].counters
  /\ traces[1].counters["x"] = Whole(2)
  /\ Len(logged) = 1

(***************************************************************************)
(* C11.  record() neither checks nor changes the state: in each of         *)
(* UNINITIALIZED, RUNNING and TERMINATED it throws nothing, reports the    *)
(* trace and leaves the state as it was, and a start() or stop() made      *)
(* right after it throws or succeeds, marks the registry and (when stop()  *)
(* succeeds) computes the timing exactly as it would have before it.  So a *)
(* trace already reported by stop() can be reported again by record() with *)
(* other timing values.                                                    *)
(***************************************************************************)
C11_RecordAnyState ==
  [][ret'.op = "record"
       => LET before == traces[ret'.t]
              after == traces'[ret'.t]
              at == Num(now.num + 1)
              startBefore == start(before, entries, logged, at)
              startAfter == start(after, entries', logged', at)
              stopBefore == stop(before, entries, logged, at)
              stopAfter == stop(after, entries', logged', at)
          IN /\ ret'.threw = Undefined
             /\ after.state = before.state
             /\ Len(logged') = Len(logged) + 1
             /\ entries' = entries
             /\ startAfter.threw = startBefore.threw
             /\ startAfter.tr.state = startBefore.tr.state
             /\ startAfter.es = startBefore.es
             /\ stopAfter.threw = stopBefore.threw
             /\ stopAfter.tr.state = stopBefore.tr.state
             /\ stopAfter.es = stopBefore.es
             /\ stopAfter.threw = Undefined
                  => /\ stopAfter.tr.durationUs = stopBefore.tr.durationUs
                     /\ stopAfter.tr.startTimeUs = stopBefore.tr.startTimeUs
    ]_vars

\* the one trace there is was reported by stop() and then by record(), with another
\* duration
C11_Witness ==
  /\ Len(traces) = 1
  /\ ret.op = "record"
  /\ Len(logged) = 2
  /\ logged[1].state = TERMINATED
  /\ logged[2].state = TERMINATED
  /\ logged[1].traceStartMark = logged[2].traceStartMark
  /\ logged[1].durationUs # logged[2].durationUs

(***************************************************************************)
(* C12.  createOobTrace() with no route (getUrl() gives nothing) throws    *)
(* nothing, reports nothing and leaves the registry without a new mark or  *)
(* measure, whatever navigation timings, paint timings and input delay it  *)
(* is given.                                                               *)
(***************************************************************************)
C12_NoRouteNoReport ==
  [][(ret'.op = "createOobTrace" /\ Falsy(ret'.args[1]))
       => /\ ret'.threw = Undefined
          /\ logged' = logged
          /\ entries' = entries
          /\ traces' = traces]_vars

\* after a report, a call without a route but with all the timings reported nothing
C12_Witness ==
  /\ ret.op = "createOobTrace"
  /\ ret.args[1] = Undefined
  /\ ret.args[2] # Undefined /\ Len(ret.args[2].array) = 1
  /\ ret.args[3] # Undefined /\ Len(ret.args[3].array) = 2
  /\ ret.args[4] = Frac(2001)
  /\ ops = 2
  /\ Len(logged) = 1

(***************************************************************************)
(* C13.  createOobTrace() with a route reports one auto trace named the    *)
(* page-load prefix followed by the route, with startTimeUs                *)
(* floor(timeOrigin * 1000).  With a navigation-timing record, durationUs  *)
(* is floor(duration * 1000) and the counters domInteractive,              *)
(* domContentLoadedEventEnd and loadEventEnd are floor(field * 1000) of    *)
(* the record (domInteractive 0.5 ms gives 500); with none, the trace has  *)
(* none of the three counters.                                             *)
(***************************************************************************)
C13_PageLoadTrace ==
  [][(ret'.op = "createOobTrace" /\ ~Falsy(ret'.args[1]))
       => /\ Len(logged') = Len(logged) + 1
          /\ SubSeq(logged', 1, Len(logged)) = logged
          /\ LET tr == logged'[Len(logged')]
                 navigationTimings == ret'.args[2]
                 fields == {"domInteractive", "domContentLoadedEventEnd", "loadEventEnd"}
             IN /\ tr.isAuto
                /\ tr.name = OOB_TRACE_PAGE_LOAD_PREFIX \o ret'.args[1].str
                /\ IsFloorOf(tr.startTimeUs, ApiGetTimeOrigin.num * 1000)
                /\ IF navigationTimings # Undefined /\ Len(navigationTimings.array) > 0
                     THEN LET nav == navigationTimings.array[1]
                          IN /\ IsFloorOf(tr.durationUs, nav.duration.num * 1000)
                             /\ \A f \in fields :
                                  /\ f \in DOMAIN tr.counters
                                  /\ IsFloorOf(tr.counters[f], nav[f].num * 1000)
                             /\ nav.domInteractive = Frac(Den \div 2)
                                  => tr.counters["domInteractive"] = Whole(500)
                     ELSE fields \cap DOMAIN tr.counters = {}
    ]_vars

\* a page-load trace was reported with domInteractive 500 and loadEventEnd 1001
C13_Witness ==
  /\ ret.op = "createOobTrace"
  /\ Len(logged) = 1
  /\ logged[1].name = "_wt_/"
  /\ logged[1].startTimeUs = Whole(1000)
  /\ logged[1].durationUs = Whole(1500)
  /\ logged[1].counters["domInteractive"] = Whole(500)
  /\ logged[1].counters["loadEventEnd"] = Whole(1001)

(***************************************************************************)
(* Two traces of one name, constructed before either is started, and their *)
(* start() and stop() calls in any order, each after some time has passed. *)
(* Math.random() gives each trace any random id.                           *)
(***************************************************************************)
InitPair ==
  /\ \E first \in RandomIds, second \in RandomIds :
        traces = <<Trace("t", FALSE, Undefined, first, 1, <<>>),
                   Trace("t", FALSE, Undefined, second, 2, <<>>)>>
  /\ entries = <<>>
  /\ now = Whole(0)
  /\ logged = <<>>
  /\ held = NoObject
  /\ ret = [op |-> "new", t |-> 2, args |-> <<"t">>, threw |-> Undefined,
            value |-> Undefined]
  /\ ops = 0
  /\ reportingCalls = 0

PairStart ==
  /\ ops < MaxPairOps
  /\ \E t \in Live, dt \in Ticks : CallStart(t, dt)

PairStop ==
  /\ ops < MaxPairOps
  /\ \E t \in Live, dt \in Ticks : CallStop(t, dt)

NextPair == PairStart \/ PairStop

SpecPair == InitPair /\ [][NextPair]_vars

\* the measure entry that the stop() of this step made for the trace tr: the one of
\* its measure name that ends at the instant of the stop mark
OwnMeasure(tr) ==
  CHOOSE e \in {entries'[k] : k \in 1..Len(entries')} :
    /\ e.entryType = "measure"
    /\ e.name = tr.traceMeasure
    /\ e.startTime.num + e.duration.num = now'.num

\* the timing of the trace tr is that of the registry entry e
TimedFrom(tr, e) ==
  /\ IsFloorOf(tr.durationUs, e.duration.num * 1000)
  /\ IsFloorOf(tr.startTimeUs, (e.startTime.num + ApiGetTimeOrigin.num) * 1000)

\* the traces i and j share none of their three registry names
DistinctNames(i, j) ==
  /\ traces[i].traceStartMark # traces[j].traceStartMark
  /\ traces[i].traceStopMark # traces[j].traceStopMark
  /\ traces[i].traceMeasure # traces[j].traceMeasure

(***************************************************************************)
(* C14.  Any two traces (not auto) constructed with the same name have     *)
(* distinct start-mark, stop-mark and measure names; so, however their     *)
(* start() and stop() calls interleave on the one registry, every stop()   *)
(* of a RUNNING trace succeeds and leaves the trace with the durationUs    *)
(* and startTimeUs of the measure entry that this stop() made, never of    *)
(* the other trace's entry.                                                *)
(***************************************************************************)
C14_OwnCorrelation ==
  /\ [](\A i \in Live, j \in Live :
          (i # j /\ ~traces[i].isAuto /\ ~traces[j].isAuto
             /\ traces[i].name = traces[j].name) => DistinctNames(i, j))
  /\ [][(ret'.op = "stop" /\ traces[ret'.t].state = RUNNING)
          => /\ ret'.threw = Undefined
             /\ TimedFrom(traces'[ret'.t], OwnMeasure(traces'[ret'.t]))]_vars

\* C14 for two traces that Math.random() gave different ids
OwnCorrelationDistinctIds ==
  /\ [](\A i \in Live, j \in Live :
          (i # j /\ traces[i].randomId # traces[j].randomId) => DistinctNames(i, j))
  /\ [][(ret'.op = "stop" /\ traces[ret'.t].state = RUNNING
           /\ \A j \in Live \ {ret'.t} : traces[j].randomId # traces[ret'.t].randomId)
          => /\ ret'.threw = Undefined
             /\ TimedFrom(traces'[ret'.t], OwnMeasure(traces'[ret'.t]))]_vars

\* two traces of different ids were started and stopped, the one inside the other
PairBothStopped ==
  /\ traces[1].randomId # traces[2].randomId
  /\ traces[1].state = TERMINATED /\ traces[2].state = TERMINATED
  /\ traces[1].durationUs # traces[2].durationUs
  /\ Len(logged) = 2

\* the trace tr has both its timing fields
Populated(tr) == tr.startTimeUs # Undefined /\ tr.durationUs # Undefined

(***************************************************************************)
(* C15.  Every trace handed to the reporter, by stop(), record(),          *)
(* createUserTimingTrace() or createOobTrace(), has its startTimeUs and    *)
(* its durationUs set at the call.                                         *)
(***************************************************************************)
C15_ReportedPopulated ==
  \A i \in 1..Len(logged) : Populated(logged[i])

\* C15 for the reports of stop() and record()
StopRecordPopulated ==
  [][((ret'.op = "stop" /\ ret'.threw = Undefined) \/ ret'.op = "record")
       => Populated(logged'[Len(logged')])]_vars

C17_MetricsFromFirstEntry ==
  /\ [](\A t \in Live :
          LET tr == traces[t]
              found == ApiGetEntriesByName(entries, tr.traceMeasure)
              computed == calculateTraceMetrics(tr, entries)
          IN IF Len(found) > 0
               THEN /\ TimedFrom(computed, found[1])
                    /\ [computed EXCEPT !.durationUs = tr.durationUs,
                                        !.startTimeUs = tr.startTimeUs] = tr
               ELSE computed = tr)
  /\ [][/\ ret'.op = "createUserTimingTrace"
             => LET tr == logged'[Len(logged')]
                    found == ApiGetEntriesByName(entries, Str(ret'.args[1]))
                IN /\ ret'.threw = Undefined
                   /\ IF Len(found) > 0 THEN TimedFrom(tr, found[1])
                      ELSE tr.durationUs = Undefined /\ tr.startTimeUs = Undefined
        /\ (ret'.op = "stop" /\ ret'.threw = Undefined)
             => TimedFrom(traces'[ret'.t],
                          ApiGetEntriesByName(entries', traces'[ret'.t].traceMeasure)[1])
       ]_vars

\* createUserTimingTrace("m") before there was a measure "m" and again when there were
\* two: the second report has the timing of the earlier measure
C17_Witness ==
  /\ ret.op = "createUserTimingTrace"
  /\ Len(logged) = 2
  /\ logged[1].durationUs = Undefined
  /\ logged[1].startTimeUs = Undefined
  /\ Len(ApiGetEntriesByName(entries, Str("m"))) = 2
  /\ logged[2].durationUs = Whole(1000)
  /\ logged[2].startTimeUs = Whole(1000)

\* the first of the paint timings named name, or undefined
FirstNamed(paintTimings, name) ==
  IF paintTimings = Undefined THEN Undefined
  ELSE LET named == {k \in 1..Len(paintTimings.array) :
                       paintTimings.array[k].name = Str(name)}
       IN IF named = {} THEN Undefined
          ELSE paintTimings.array[CHOOSE k \in named : \A j \in named : k <= j]

\* the counter is there exactly when the first paint timing of the name has a positive
\* start time, and is then floor(startTime * 1000)
PaintCounter(tr, paintTimings, name, counter) ==
  LET first == FirstNamed(paintTimings, name)
  IN IF first # Undefined /\ first.startTime.num > 0
       THEN /\ counter \in DOMAIN tr.counters
            /\ IsFloorOf(tr.counters[counter], first.startTime.num * 1000)
       ELSE counter \notin DOMAIN tr.counters

(***************************************************************************)
(* C18.  In createOobTrace() with a route, the first-paint counter and the *)
(* first-contentful-paint counter are recorded exactly when the paint      *)
(* timings have an entry of that exact name, the first of that name being  *)
(* the one taken, with a positive start time, as floor(startTime * 1000);  *)
(* and whenever an input delay is supplied, the first-input-delay counter  *)
(* is recorded as floor(firstInputDelay * 1000).                           *)
(***************************************************************************)
C18_PaintAndInputDelay ==
  [][(ret'.op = "createOobTrace" /\ ~Falsy(ret'.args[1]))
       => LET tr == logged'[Len(logged')]
              paintTimings == ret'.args[3]
              firstInputDelay == ret'.args[4]
          IN /\ PaintCounter(tr, paintTimings, "first-paint", FIRST_PAINT_COUNTER_NAME)
             /\ PaintCounter(tr, paintTimings, "first-contentful-paint",
                             FIRST_CONTENTFUL_PAINT_COUNTER_NAME)
             /\ firstInputDelay # Undefined
                  => /\ FIRST_INPUT_DELAY_COUNTER_NAME \in DOMAIN tr.counters
                     /\ IsFloorOf(tr.counters[FIRST_INPUT_DELAY_COUNTER_NAME],
                                  firstInputDelay.num * 1000)
    ]_vars

\* C18 for the two paint counters, and for an input delay that is not 0 and comes with
\* paint timings
PaintCountersRecorded ==
  [][(ret'.op = "createOobTrace" /\ ~Falsy(ret'.args[1]))
       => LET tr == logged'[Len(logged')]
              paintTimings == ret'.args[3]
              firstInputDelay == ret'.args[4]
          IN /\ PaintCounter(tr, paintTimings, "first-paint", FIRST_PAINT_COUNTER_NAME)
             /\ PaintCounter(tr, paintTimings, "first-contentful-paint",
                             FIRST_CONTENTFUL_PAINT_COUNTER_NAME)
             /\ IF paintTimings # Undefined /\ firstInputDelay \notin {Undefined, Whole(0)}
                  THEN /\ FIRST_INPUT_DELAY_COUNTER_NAME \in DOMAIN tr.counters
                       /\ IsFloorOf(tr.counters[FIRST_INPUT_DELAY_COUNTER_NAME],
                                    firstInputDelay.num * 1000)
                  ELSE FIRST_INPUT_DELAY_COUNTER_NAME \notin DOMAIN tr.counters
    ]_vars

\* a page-load trace was reported with all three counters, the first-paint counter from
\* the first of two entries of that name
PaintCountersReached ==
  /\ ret.op = "createOobTrace"
  /\ Len(logged) = 1
  /\ DOMAIN logged[1].counters = {FIRST_PAINT_COUNTER_NAME,
                                  FIRST_CONTENTFUL_PAINT_COUNTER_NAME,
                                  FIRST_INPUT_DELAY_COUNTER_NAME}
  /\ logged[1].counters[FIRST_PAINT_COUNTER_NAME] = Whole(1000)
  /\ logged[1].counters[FIRST_CONTENTFUL_PAINT_COUNTER_NAME] = Whole(1500)
  /\ logged[1].counters[FIRST_INPUT_DELAY_COUNTER_NAME] = Whole(1000)

(***************************************************************************)
(* C19.  record() replaces the attributes and merges the metrics.  Given   *)
(* options.attributes, the trace's attribute map is afterwards exactly the *)
(* given map (an earlier attribute that is not in it is gone) and is a     *)
(* copy of it, another object than the one the caller passed and holds, so *)
(* what the caller does to its object later does not change the trace.     *)
(* Given no options.attributes, the attribute map is the same object with  *)
(* the same content as before.  Every counter there was before the call    *)
(* that options.metrics does not name has its value still.                 *)
(***************************************************************************)
C19_RecordReplacesAttributes ==
  [][/\ ret'.op = "record"
          => LET before == traces[ret'.t]
                 after == traces'[ret'.t]
                 options == ret'.args[3]
                 named == IF options # Undefined /\ options.metrics # Undefined
                            THEN DOMAIN options.metrics.props ELSE {}
             IN /\ IF options # Undefined /\ options.attributes # Undefined
                     THEN /\ after.customAttributes.props = options.attributes.props
                          /\ after.customAttributes.id # options.attributes.id
                          /\ held' = options.attributes
                     ELSE after.customAttributes = before.customAttributes
                /\ \A k \in (DOMAIN before.counters) \ named :
                     /\ k \in DOMAIN after.counters
                     /\ after.counters[k] = before.counters[k]
     /\ (ret'.op = "mutate" /\ ret.op = "record" /\ ret.args[3] # Undefined
           /\ ret.args[3].attributes # Undefined)
          => /\ held'.id = ret.args[3].attributes.id
             /\ traces' = traces
    ]_vars

\* after putAttribute("a", "1") and putMetric("x", 5),
\* record(..., {attributes: {k: "v"}, metrics: {m: 2.9}}) left the attributes {k: "v"}
\* and the counters {x: 5, m: 2}
C19_Witness ==
  /\ ret.op = "record"
  /\ ops = 3
  /\ held.props = ("k" :> Str("v"))
  /\ traces[1].customAttributes.props = ("k" :> Str("v"))
  /\ traces[1].customAttributes.id # held.id
  /\ DOMAIN traces[1].counters = {"x", "m"}
  /\ traces[1].counters["x"] = Whole(5)
  /\ traces[1].counters["m"] = Whole(2)

(***************************************************************************)
(* The user timing traces alone: code outside the library measures         *)
(* intervals under names of its choice, and createUserTimingTrace() is     *)
(* called with such names.                                                 *)
(***************************************************************************)
UserTimingMeasure ==
  /\ ops < MaxUserTimingOps
  /\ \E name \in UserTimingNames, dt \in Ticks : UserMeasure(name, dt)

UserTimingCreate ==
  /\ ops < MaxUserTimingOps
  /\ \E measureName \in UserTimingNames, randomId \in RandomIds :
        CallCreateUserTimingTrace(measureName, randomId)

NextUserTiming == UserTimingMeasure \/ UserTimingCreate

SpecUserTiming == Init /\ [][NextUserTiming]_vars

(***************************************************************************)
(* C20.  createUserTimingTrace(measureName) constructs a trace that is not *)
(* auto, whose name and whose measure name are both exactly measureName,   *)
(* with the startTimeUs and durationUs that the constructor computes from  *)
(* the registry entry of that name that exists already; it makes no mark   *)
(* and no measure, calls neither start() nor stop() (the state is          *)
(* UNINITIALIZED) and reports the trace exactly once.                      *)
(***************************************************************************)
C20_UserTimingTrace ==
  [][ret'.op = "createUserTimingTrace"
       => LET measureName == ret'.args[1]
              tr == logged'[Len(logged')]
              found == ApiGetEntriesByName(entries, Str(measureName))
          IN /\ ret'.threw = Undefined
             /\ logged' = Append(logged, tr)
             /\ ~tr.isAuto
             /\ tr.name = measureName
             /\ tr.traceMeasure = Str(measureName)
             /\ tr.state = UNINITIALIZED
             /\ Len(found) > 0 => TimedFrom(tr, found[1])
             /\ entries' = entries
             /\ traces' = traces
    ]_vars

\* C20 for the measure names that are not the empty string
UserTimingTraceNamed ==
  [][(ret'.op = "createUserTimingTrace" /\ ret'.args[1] # "")
       => LET measureName == ret'.args[1]
              tr == logged'[Len(logged')]
              found == ApiGetEntriesByName(entries, Str(measureName))
          IN /\ ret'.threw = Undefined
             /\ logged' = Append(logged, tr)
             /\ ~tr.isAuto
             /\ tr.name = measureName
             /\ tr.traceMeasure = Str(measureName)
             /\ tr.state = UNINITIALIZED
             /\ Len(found) > 0 => TimedFrom(tr, found[1])
             /\ entries' = entries
             /\ traces' = traces
    ]_vars

\* createUserTimingTrace("m") reported the 1.5005 ms measured under the name "m"
UserTimingTraceReached ==
  /\ ret.op = "createUserTimingTrace"
  /\ ret.args = <<"m">>
  /\ Len(logged) = 1
  /\ logged[1].traceMeasure = Str("m")
  /\ logged[1].durationUs = Whole(1500)
  /\ Len(entries) = 1

\* the maps before and after differ at most at key
OnlyAt(before, after, key) ==
  /\ (DOMAIN after) \ {key} = (DOMAIN before) \ {key}
  /\ \A k \in (DOMAIN before) \ {key} : after[k] = before[k]

(***************************************************************************)
(* C21.  incrementMetric, putMetric, putAttribute and removeAttribute      *)
(* throw nothing in each of UNINITIALIZED, RUNNING and TERMINATED and      *)
(* change only their own map entry: the state, startTimeUs, durationUs,    *)
(* the name and every other field of the trace, the other traces, the      *)
(* registry and the reporter's log are as before; a metric mutator leaves  *)
(* the attributes as they were and an attribute mutator the counters.  So  *)
(* a start() or stop() made right after a mutator throws or succeeds and   *)
(* marks the registry exactly as it would have before it.                  *)
(***************************************************************************)
C21_MutatorsFrame ==
  [][ret'.op \in {"incrementMetric", "putMetric", "putAttribute", "removeAttribute"}
       => LET t == ret'.t
              key == ret'.args[1]
              before == traces[t]
              after == traces'[t]
              metric == ret'.op \in {"incrementMetric", "putMetric"}
              at == Num(now.num + 1)
              startBefore == start(before, entries, logged, at)
              startAfter == start(after, entries', logged', at)
              stopBefore == stop(before, entries, logged, at)
              stopAfter == stop(after, entries', logged', at)
          IN /\ ret'.threw = Undefined
             /\ [after EXCEPT !.counters = before.counters,
                              !.customAttributes = before.customAttributes] = before
             /\ \A j \in Live \ {t} : traces'[j] = traces[j]
             /\ Len(traces') = Len(traces)
             /\ entries' = entries
             /\ logged' = logged
             /\ IF metric
                  THEN /\ after.customAttributes = before.customAttributes
                       /\ OnlyAt(before.counters, after.counters, key)
                       /\ key \in DOMAIN after.counters
                  ELSE /\ after.counters = before.counters
                       /\ after.customAttributes.id = before.customAttributes.id
                       /\ OnlyAt(before.customAttributes.props,
                                 after.customAttributes.props, key)
             /\ startAfter.threw = startBefore.threw
             /\ startAfter.tr.state = startBefore.tr.state
             /\ startAfter.es = startBefore.es
             /\ stopAfter.threw = stopBefore.threw
             /\ stopAfter.tr.state = stopBefore.tr.state
             /\ stopAfter.es = stopBefore.es
             /\ stopAfter.tr.durationUs = stopBefore.tr.durationUs
             /\ stopAfter.tr.startTimeUs = stopBefore.tr.startTimeUs
    ]_vars

\* on a trace that was started, stopped and reported, putMetric("x", 5) set the counter
\* and left the report and the timing alone
C21_Witness ==
  /\ ret.op = "putMetric"
  /\ ret.threw = Undefined
  /\ traces[ret.t].state = TERMINATED
  /\ traces[ret.t].durationUs = Whole(1000)
  /\ traces[ret.t].counters = ("x" :> Whole(5))
  /\ Len(logged) = 1
  /\ logged[1].counters = <<>>

====
